---- MODULE Spec2Model ----
(***************************************************************************)
(* Model of scripts/generate-training-data.py: the prompt renderer         *)
(* (build_instruction), the response renderer (build_output), the         *)
(* generation loop that writes one JSON line per scenario, and the         *)
(* validation loop that reads the file back and checks the four markers.   *)
(*                                                                         *)
(* A Python str is a sequence of characters; a character is a one-char     *)
(* TLA+ string, except that a non-ASCII code point is written by its name  *)
(* ("U+00B1").  A Python dict is the sequence of its <<key, value>> items  *)
(* in insertion order.                                                     *)
(***************************************************************************)
EXTENDS Integers, Sequences, FiniteSets, TLC

\* ------------------------------------------------------------------------
\* Bounds of the model
\* ------------------------------------------------------------------------
\* longest corpus (len(scenarios)) explored
MaxRecords == 2
\* number of times the script is run on the same corpus and file
MaxRuns == 2

\* ------------------------------------------------------------------------
\* Python str operations
\* ------------------------------------------------------------------------
NL == "\n"
QUOTE == "\""
BACKSLASH == "\\"

\* concatenation of the strings ss[lo..hi] (balanced, so that the depth of
\* the evaluation is logarithmic in the number of pieces)
RECURSIVE Flat(_, _, _)
Flat(ss, lo, hi) ==
    IF lo > hi THEN <<>>
    ELSE IF lo = hi THEN ss[lo]
    ELSE LET mid == (lo + hi) \div 2
         IN  Flat(ss, lo, mid) \o Flat(ss, mid + 1, hi)

\* ''.join(ss)
Concat(ss) == Flat(ss, 1, Len(ss))

\* sep.join(ss)
Join(sep, ss) ==
    IF Len(ss) = 0 THEN <<>>
    ELSE Concat([k \in 1..(2 * Len(ss) - 1) |->
                    IF k % 2 = 1 THEN ss[(k + 1) \div 2] ELSE sep])

\* m in s  (substring test)
Contains(m, s) ==
    \E k \in 1..(Len(s) - Len(m) + 1) :
        /\ s[k] = m[1]
        /\ SubSeq(s, k, k + Len(m) - 1) = m

\* the elements of a finite set of integers in increasing order
Ascending(S) ==
    [k \in 1..Cardinality(S) |->
        CHOOSE p \in S : Cardinality({q \in S : q < p}) = k - 1]

\* str(n) for an int n
DigitChars == <<"0", "1", "2", "3", "4", "5", "6", "7", "8", "9">>

RECURSIVE NatStr(_)
NatStr(n) ==
    IF n < 10 THEN <<DigitChars[n + 1]>>
    ELSE NatStr(n \div 10) \o <<DigitChars[(n % 10) + 1]>>

IntStr(n) == IF n < 0 THEN <<"-">> \o NatStr(-n) ELSE NatStr(n)

\* ------------------------------------------------------------------------
\* json.dumps
\* ------------------------------------------------------------------------
\* an encoder that leaves the backslash as it is
EscapeChar_keeps_backslash(c) ==
    CASE c = QUOTE     -> <<BACKSLASH, QUOTE>>
      [] c = NL        -> <<BACKSLASH, "n">>
      [] c = "\t"      -> <<BACKSLASH, "t">>
      [] c = "\r"      -> <<BACKSLASH, "r">>
      [] OTHER         -> <<c>>

\* the escapes of json.encoder (ESCAPE_DCT) for the characters of the model
EscapeChar(c) ==
    CASE c = QUOTE     -> <<BACKSLASH, QUOTE>>
      [] c = BACKSLASH -> <<BACKSLASH, BACKSLASH>>
      [] c = NL        -> <<BACKSLASH, "n">>
      [] c = "\t"      -> <<BACKSLASH, "t">>
      [] c = "\r"      -> <<BACKSLASH, "r">>
      [] OTHER         -> <<c>>

\* the non-ASCII characters of the model
NonAscii == {"U+00B1", "U+03C3"}

\* the \uXXXX escape of a non-ASCII character, as ensure_ascii=True writes it
UnicodeEscape(c) ==
    IF c = "U+00B1" THEN <<BACKSLASH, "u", "0", "0", "b", "1">>
                    ELSE <<BACKSLASH, "u", "0", "3", "c", "3">>

\* json.dumps(s, ensure_ascii=False) of a str s
EncodeString(s) ==
    <<QUOTE>> \o Concat([k \in 1..Len(s) |-> EscapeChar(s[k])]) \o <<QUOTE>>

\* json.dumps(s) of a str s (ensure_ascii defaults to True)
EncodeStringAscii(s) ==
    <<QUOTE>>
    \o Concat([k \in 1..Len(s) |-> IF s[k] \in NonAscii
                                     THEN UnicodeEscape(s[k])
                                     ELSE EscapeChar(s[k])])
    \o <<QUOTE>>

\* one "key": value member; a value is [t |-> "str", v |-> <chars>] or
\* [t |-> "int", v |-> <integer>]
EncodeMemberAscii(item) ==
    EncodeStringAscii(item[1]) \o <<":", " ">>
    \o (IF item[2].t = "int" THEN IntStr(item[2].v)
                             ELSE EncodeStringAscii(item[2].v))

\* json.dumps(d, indent=2) of a dict d of scalars
DumpsIndent2(d) ==
    IF Len(d) = 0 THEN <<"{", "}">>
    ELSE <<"{", NL>>
         \o Join(<<",", NL>>,
                 [k \in 1..Len(d) |-> <<" ", " ">> \o EncodeMemberAscii(d[k])])
         \o <<NL, "}">>

\* json.dumps(d, ensure_ascii=False) of a dict d of str
Dumps(d) ==
    <<"{">>
    \o Join(<<",", " ">>,
            [k \in 1..Len(d) |->
                EncodeString(d[k][1]) \o <<":", " ">> \o EncodeString(d[k][2])])
    \o <<"}">>

\* ------------------------------------------------------------------------
\* The renderers
\* ------------------------------------------------------------------------
\* the template of build_instruction up to {s['service']}
InstrHead ==
    <<"Y", "o", "u", " ", "a", "r", "e", " ", "a", "n", " ", "e", "x", "p", "e", "r",
      "t", " ", "i", "n", " ", "d", "i", "s", "t", "r", "i", "b", "u", "t", "e", "d",
      " ", "s", "y", "s", "t", "e", "m", "s", " ", "a", "n", "d", " ", "o", "b", "s",
      "e", "r", "v", "a", "b", "i", "l", "i", "t", "y", ".", " ", "A", "n", "a", "l",
      "y", "z", "e", " ", "t", "h", "i", "s", " ", "p", "e", "r", "f", "o", "r", "m",
      "a", "n", "c", "e", " ", "a", "n", "o", "m", "a", "l", "y", ":", "\n", "\n", "#",
      "#", " ", "A", "n", "o", "m", "a", "l", "y", " ", "D", "e", "t", "a", "i", "l",
      "s", "\n", "-", " ", "S", "e", "r", "v", "i", "c", "e", ":", " ">>

\* ... between {s['service']} and {s['operation']}
InstrOperation ==
    <<"\n", "-", " ", "O", "p", "e", "r", "a", "t", "i", "o", "n", ":", " ">>

\* ... between {s['operation']} and {s['duration']}
InstrDuration ==
    <<"\n", "-", " ", "D", "u", "r", "a", "t", "i", "o", "n", ":", " ">>

\* ... between {s['duration']} and {s['expected_mean']}
InstrExpected ==
    <<"m", "s", " ", "(", "e", "x", "p", "e", "c", "t", "e", "d", ":", " ">>

\* ... between {s['expected_mean']} and {s['expected_std']}
InstrPlusMinus ==
    <<"m", "s", " ", "U+00B1", " ">>

\* ... between {s['expected_std']} and {s['deviation']}
InstrDeviation ==
    <<"m", "s", ")", "\n", "-", " ", "D", "e", "v", "i", "a", "t", "i", "o", "n", ":",
      " ">>

\* ... between {s['deviation']} and {s['severity']}
InstrSeverity ==
    <<"U+03C3", " ", "(", "s", "t", "a", "n", "d", "a", "r", "d", " ", "d", "e", "v", "i",
      "a", "t", "i", "o", "n", "s", " ", "f", "r", "o", "m", " ", "m", "e", "a", "n",
      ")", "\n", "-", " ", "S", "e", "v", "e", "r", "i", "t", "y", ":", " ", "S", "E",
      "V">>

\* ... between {s['severity']} and {s['severity_name']}
InstrSeverityName ==
    <<" ", "(">>

\* ... between {s['severity_name']} and {json.dumps(s['attributes'], indent=2)}
InstrAttributes ==
    <<")", "\n", "\n", "#", "#", " ", "S", "p", "a", "n", " ", "A", "t", "t", "r", "i",
      "b", "u", "t", "e", "s", "\n">>

\* ... after {json.dumps(s['attributes'], indent=2)}, to the end of the template
InstrTask ==
    <<"\n", "\n", "B", "a", "s", "e", "d", " ", "o", "n", " ", "t", "h", "e", " ", "t",
      "r", "a", "c", "e", " ", "d", "a", "t", "a", " ", "A", "N", "D", " ", "c", "o",
      "r", "r", "e", "l", "a", "t", "e", "d", " ", "m", "e", "t", "r", "i", "c", "s",
      ",", " ", "p", "r", "o", "v", "i", "d", "e", ":", "\n", "1", ".", " ", "A", " ",
      "b", "r", "i", "e", "f", " ", "s", "u", "m", "m", "a", "r", "y", " ", "(", "1",
      "-", "2", " ", "s", "e", "n", "t", "e", "n", "c", "e", "s", ")", " ", "o", "f",
      " ", "w", "h", "a", "t", " ", "l", "i", "k", "e", "l", "y", " ", "c", "a", "u",
      "s", "e", "d", " ", "t", "h", "i", "s", " ", "a", "n", "o", "m", "a", "l", "y",
      "\n", "2", ".", " ", "2", "-", "3", " ", "p", "o", "s", "s", "i", "b", "l", "e",
      " ", "r", "o", "o", "t", " ", "c", "a", "u", "s", "e", "s", " ", "(", "c", "o",
      "n", "s", "i", "d", "e", "r", " ", "r", "e", "s", "o", "u", "r", "c", "e", " ",
      "u", "t", "i", "l", "i", "z", "a", "t", "i", "o", "n", " ", "i", "f", " ", "m",
      "e", "t", "r", "i", "c", "s", " ", "s", "h", "o", "w", " ", "i", "s", "s", "u",
      "e", "s", ")", "\n", "3", ".", " ", "2", "-", "3", " ", "a", "c", "t", "i", "o",
      "n", "a", "b", "l", "e", " ", "r", "e", "c", "o", "m", "m", "e", "n", "d", "a",
      "t", "i", "o", "n", "s", "\n", "\n", "F", "o", "r", "m", "a", "t", " ", "y", "o",
      "u", "r", " ", "r", "e", "s", "p", "o", "n", "s", "e", " ", "a", "s", ":", "\n",
      "S", "U", "M", "M", "A", "R", "Y", ":", " ", "[", "y", "o", "u", "r", " ", "s",
      "u", "m", "m", "a", "r", "y", "]", "\n", "C", "A", "U", "S", "E", "S", ":", "\n",
      "-", " ", "[", "c", "a", "u", "s", "e", " ", "1", "]", "\n", "-", " ", "[", "c",
      "a", "u", "s", "e", " ", "2", "]", "\n", "R", "E", "C", "O", "M", "M", "E", "N",
      "D", "A", "T", "I", "O", "N", "S", ":", "\n", "-", " ", "[", "r", "e", "c", "o",
      "m", "m", "e", "n", "d", "a", "t", "i", "o", "n", " ", "1", "]", "\n", "-", " ",
      "[", "r", "e", "c", "o", "m", "m", "e", "n", "d", "a", "t", "i", "o", "n", " ",
      "2", "]", "\n", "C", "O", "N", "F", "I", "D", "E", "N", "C", "E", ":", " ", "[",
      "l", "o", "w", "/", "m", "e", "d", "i", "u", "m", "/", "h", "i", "g", "h", "]">>
\* the keys build_instruction and build_output subscript the record with
RequiredFields ==
    {"service", "operation", "duration", "expected_mean", "expected_std",
     "deviation", "severity", "severity_name", "attributes",
     "summary", "causes", "recommendations", "confidence"}

\* the order in which building an entry subscripts the record: the keys of
\* build_instruction (lines 523-530), then those of build_output, where
\* lines 549-550 run before the template of lines 551-556
ReadOrder ==
    <<"service", "operation", "duration", "expected_mean", "expected_std",
      "deviation", "severity", "severity_name", "attributes",
      "causes", "recommendations", "summary", "confidence">>

\* json.dumps encodes str and int values; for a value of another type (a
\* set, written [t |-> "set"]) it raises TypeError
Serializable(d) == \A k \in 1..Len(d) : d[k][2].t \in {"str", "int"}

\* the exception that building the entry of s raises, as <<type, argument>>,
\* or <<"none", "">>: s[key] raises KeyError(key) for the first key read that
\* the record lacks, json.dumps raises TypeError when it comes to the
\* attributes
RenderError(s) ==
    LET missing == {k \in 1..Len(ReadOrder) : ReadOrder[k] \notin DOMAIN s}
        first   == CHOOSE k \in missing : \A j \in missing : k <= j
        attrs   == CHOOSE k \in 1..Len(ReadOrder) : ReadOrder[k] = "attributes"
    IN  IF /\ "attributes" \in DOMAIN s
           /\ ~Serializable(s.attributes)
           /\ \A k \in missing : k > attrs
        THEN <<"TypeError", "set">>
        ELSE IF missing # {} THEN <<"KeyError", ReadOrder[first]>>
        ELSE <<"none", "">>

\* the example of a record can be built when no subscript and no json.dumps
\* raises
Renders(s) == RenderError(s)[1] = "none"

\* build_instruction with the service and the operation in each other's place
build_instruction_swaps(s) ==
    Concat(<<InstrHead, s.operation,
             InstrOperation, s.service,
             InstrDuration, IntStr(s.duration),
             InstrExpected, IntStr(s.expected_mean),
             InstrPlusMinus, IntStr(s.expected_std),
             InstrDeviation, IntStr(s.deviation),
             InstrSeverity, IntStr(s.severity),
             InstrSeverityName, s.severity_name,
             InstrAttributes, DumpsIndent2(s.attributes),
             InstrTask>>)

build_instruction(s) ==
    Concat(<<InstrHead, s.service,
             InstrOperation, s.operation,
             InstrDuration, IntStr(s.duration),
             InstrExpected, IntStr(s.expected_mean),
             InstrPlusMinus, IntStr(s.expected_std),
             InstrDeviation, IntStr(s.deviation),
             InstrSeverity, IntStr(s.severity),
             InstrSeverityName, s.severity_name,
             InstrAttributes, DumpsIndent2(s.attributes),
             InstrTask>>)

\* template text of build_output before {s['summary']}
OutSummary ==
    <<"S", "U", "M", "M", "A", "R", "Y", ":", " ">>

\* template text of build_output before {causes}
OutCauses ==
    <<"\n", "C", "A", "U", "S", "E", "S", ":", "\n">>

\* template text of build_output before {recs}
OutRecommendations ==
    <<"\n", "R", "E", "C", "O", "M", "M", "E", "N", "D", "A", "T", "I", "O", "N", "S",
      ":", "\n">>

\* template text of build_output before {s['confidence']}
OutConfidence ==
    <<"\n", "C", "O", "N", "F", "I", "D", "E", "N", "C", "E", ":", " ">>

\* the prefix of f"- {c}"
Bullet ==
    <<"-", " ">>

\* build_output with a line break after the last line
build_output_trailing_newline(s) ==
    LET causes == Join(<<NL>>, [k \in 1..Len(s.causes) |-> Bullet \o s.causes[k]])
        recs   == Join(<<NL>>, [k \in 1..Len(s.recommendations) |->
                                    Bullet \o s.recommendations[k]])
    IN  Concat(<<OutSummary, s.summary,
                 OutCauses, causes,
                 OutRecommendations, recs,
                 OutConfidence, s.confidence, <<NL>>>>)

\* build_output that leaves out the first cause
build_output_drops_cause(s) ==
    LET causes == Join(<<NL>>, [k \in 1..(Len(s.causes) - 1) |->
                                    Bullet \o s.causes[k + 1]])
        recs   == Join(<<NL>>, [k \in 1..Len(s.recommendations) |->
                                    Bullet \o s.recommendations[k]])
    IN  Concat(<<OutSummary, s.summary,
                 OutCauses, causes,
                 OutRecommendations, recs,
                 OutConfidence, s.confidence>>)

\* build_output that lists the causes again under RECOMMENDATIONS:
build_output_repeats_causes(s) ==
    LET causes == Join(<<NL>>, [k \in 1..Len(s.causes) |-> Bullet \o s.causes[k]])
        recs   == Join(<<NL>>, [k \in 1..Len(s.causes) |-> Bullet \o s.causes[k]])
    IN  Concat(<<OutSummary, s.summary,
                 OutCauses, causes,
                 OutRecommendations, recs,
                 OutConfidence, s.confidence>>)

\* build_output whose last block is introduced by "CONFIDENCE " without colon
build_output_no_colon(s) ==
    LET causes == Join(<<NL>>, [k \in 1..Len(s.causes) |-> Bullet \o s.causes[k]])
        recs   == Join(<<NL>>, [k \in 1..Len(s.recommendations) |->
                                    Bullet \o s.recommendations[k]])
    IN  Concat(<<OutSummary, s.summary,
                 OutCauses, causes,
                 OutRecommendations, recs,
                 <<NL, "C", "O", "N", "F", "I", "D", "E", "N", "C", "E", " ">>,
                 s.confidence>>)

build_output(s) ==
    LET causes == Join(<<NL>>, [k \in 1..Len(s.causes) |-> Bullet \o s.causes[k]])
        recs   == Join(<<NL>>, [k \in 1..Len(s.recommendations) |->
                                    Bullet \o s.recommendations[k]])
    IN  Concat(<<OutSummary, s.summary,
                 OutCauses, causes,
                 OutRecommendations, recs,
                 OutConfidence, s.confidence>>)

\* "instruction"
KeyInstruction ==
    <<"i", "n", "s", "t", "r", "u", "c", "t", "i", "o", "n">>

\* "input"
KeyInput ==
    <<"i", "n", "p", "u", "t">>

\* "output"
KeyOutput ==
    <<"o", "u", "t", "p", "u", "t">>

\* an entry whose input carries the service of the record
MakeEntry_fills_input(s) ==
    << <<KeyInstruction, build_instruction(s)>>,
       <<KeyInput, s.service>>,
       <<KeyOutput, build_output(s)>> >>

\* the dict built at lines 562-566
MakeEntry(s) ==
    << <<KeyInstruction, build_instruction(s)>>,
       <<KeyInput, <<>>>>,
       <<KeyOutput, build_output(s)>> >>

\* the text f.write receives for one scenario
EntryLine(s) == Dumps(MakeEntry(s)) \o <<NL>>

\* ------------------------------------------------------------------------
\* Reading the file back: f.readlines() and json.loads
\* ------------------------------------------------------------------------
\* f.readlines(): the pieces of the content, each ending with its newline
\* (a last piece without a newline is a line too)
readlines(content) ==
    LET ends == Ascending({p \in 1..Len(content) : content[p] = NL})
        n    == Len(ends)
        last == IF n = 0 THEN 0 ELSE ends[n]
        full == [k \in 1..n |->
                    SubSeq(content, IF k = 1 THEN 1 ELSE ends[k - 1] + 1, ends[k])]
    IN  IF last < Len(content)
        THEN Append(full, SubSeq(content, last + 1, Len(content)))
        ELSE full

JsonWhitespace == {" ", "\t", NL, "\r"}

\* the number of consecutive backslashes that end at position p of t
RECURSIVE BackslashRun(_, _)
BackslashRun(t, p) ==
    IF p < 1 THEN 0
    ELSE IF t[p] # BACKSLASH THEN 0
    ELSE 1 + BackslashRun(t, p - 1)

\* the character a backslash escape stands for (json.decoder BACKSLASH)
UnescapeChar(c) ==
    CASE c = "n" -> NL
      [] c = "t" -> "\t"
      [] c = "r" -> "\r"
      [] OTHER   -> c

\* the escape letters the decoder of the model accepts (\b, \f and \uXXXX are
\* not written by json.dumps for the characters of the model)
EscapeLetters == {QUOTE, BACKSLASH, "/", "n", "t", "r"}

\* the str between the quotes at positions a and b of t; <<FALSE>> stands for
\* JSONDecodeError
DecodeString(t, a, b) ==
    LET escaped(p) == BackslashRun(t, p - 1) % 2 = 1
        bad == \E p \in (a + 1)..(b - 1) :
                  \/ escaped(p) /\ t[p] \notin EscapeLetters
                  \/ ~escaped(p) /\ t[p] \in {NL, "\t", "\r"}
    IN  IF bad THEN <<FALSE>>
        ELSE <<TRUE,
               Concat([k \in 1..(b - a - 1) |->
                         LET p == a + k
                         IN  IF escaped(p) THEN <<UnescapeChar(t[p])>>
                             ELSE IF t[p] = BACKSLASH THEN <<>>
                             ELSE <<t[p]>>])>>

\* json.loads(t) for a document that is one object whose members are all
\* strings (the documents json.dumps(entry) writes); the result is
\* [ok |-> TRUE, dict |-> <items>] or, for JSONDecodeError, [ok |-> FALSE]
loads(t) ==
    LET quotes == Ascending({p \in 1..Len(t) :
                                t[p] = QUOTE /\ BackslashRun(t, p - 1) % 2 = 0})
        nq     == Len(quotes)
        NotWs(c) == c \notin JsonWhitespace
        \* the text between the quote that closes string k and the next quote
        gap(k) == SelectSeq(SubSeq(t, IF k = 0 THEN 1 ELSE quotes[k] + 1,
                                      IF k = nq THEN Len(t) ELSE quotes[k + 1] - 1),
                            NotWs)
        str(k) == DecodeString(t, quotes[2 * k - 1], quotes[2 * k])
        shape  ==
            /\ nq % 4 = 0
            /\ IF nq = 0 THEN gap(0) = <<"{", "}">>
               ELSE /\ gap(0) = <<"{">>
                    /\ gap(nq) = <<"}">>
                    /\ \A k \in 1..(nq - 1) :
                          k % 2 = 0 =>
                             gap(k) = (IF k % 4 = 2 THEN <<":">> ELSE <<",">>)
            /\ \A k \in 1..(nq \div 2) : str(k)[1]
    IN  IF shape
        THEN [ok |-> TRUE,
              dict |-> [m \in 1..(nq \div 4) |->
                           <<str(2 * m - 1)[2], str(2 * m)[2]>>]]
        ELSE [ok |-> FALSE, dict |-> <<>>]

\* d[key] of a decoded dict: the value of the last member with that key
HasKey(d, key) == \E m \in 1..Len(d) : d[m][1] = key

Lookup(d, key) ==
    LET m == CHOOSE x \in 1..Len(d) :
                /\ d[x][1] = key
                /\ \A y \in (x + 1)..Len(d) : d[y][1] # key
    IN  d[m][2]

\* 'SUMMARY:'
MarkSummary ==
    <<"S", "U", "M", "M", "A", "R", "Y", ":">>

\* 'CAUSES:'
MarkCauses ==
    <<"C", "A", "U", "S", "E", "S", ":">>

\* 'RECOMMENDATIONS:'
MarkRecommendations ==
    <<"R", "E", "C", "O", "M", "M", "E", "N", "D", "A", "T", "I", "O", "N", "S", ":">>

\* 'CONFIDENCE:'
MarkConfidence ==
    <<"C", "O", "N", "F", "I", "D", "E", "N", "C", "E", ":">>

\* ------------------------------------------------------------------------
\* The corpora explored
\* ------------------------------------------------------------------------
\* a record with 2 causes and 3 recommendations; its texts hold the
\* characters json.dumps escapes and the words of two markers
RecordA ==
    [service          |-> <<"k", "x">>,
     operation        |-> <<"p", "g">>,
     duration         |-> 276,
     expected_mean    |-> 2,
     expected_std     |-> 1,
     deviation        |-> 6,
     severity         |-> 3,
     severity_name    |-> <<"W", "a", "r", "n">>,
     attributes       |-> << <<<<"d", "b">>, [t |-> "str", v |-> <<"p", QUOTE, "g">>]>>,
                             <<<<"n">>, [t |-> "int", v |-> 100]>> >>,
     summary          |-> <<"a", QUOTE, "b", BACKSLASH>> \o MarkCauses,
     causes           |-> << <<"c", "1">>, MarkRecommendations >>,
     recommendations  |-> << <<"r", "1">>, <<"-", " ">>, <<>> >>,
     confidence       |-> <<"h", "i", "g", "h">>]

\* a record with 3 causes and 2 recommendations and no attributes
RecordB ==
    [service          |-> <<"g", "w">>,
     operation        |-> <<"r", "l">>,
     duration         |-> 1523,
     expected_mean    |-> 45,
     expected_std     |-> 0,
     deviation        |-> -2,
     severity         |-> 1,
     severity_name    |-> <<"C", "r", "i", "t">>,
     attributes       |-> <<>>,
     summary          |-> <<"s", "U+03C3">>,
     causes           |-> << <<"x">>, <<"y">>, <<"z">> >>,
     recommendations  |-> << <<"u">>, <<"v">> >>,
     confidence       |-> <<"l", "o", "w">>]

\* a record whose summary and first cause have a line break in them
RecordMultiline ==
    [RecordB EXCEPT !.summary = <<"s", NL>> \o MarkCauses \o <<NL, "-", " ", "f">>,
                    !.causes  = << <<"x", NL, "y">>, <<"z">> >>]

\* a record with one cause and no recommendation
RecordFew ==
    [RecordB EXCEPT !.causes = << <<"x">> >>,
                    !.recommendations = << >>]

\* a record without the key 'confidence'
RecordNoConfidence ==
    [f \in RequiredFields \ {"confidence"} |-> RecordA[f]]

Records == {RecordA, RecordB, RecordMultiline, RecordFew, RecordNoConfidence}

\* the lists of at most n elements of S
ListsUpTo(S, n) == UNION {[1..m -> S] : m \in 0..n}

Corpora == ListsUpTo(Records, MaxRecords)

\* what the output file holds before the script runs: nothing (or no file),
\* or the lines of an earlier dataset
StaleFile == <<"{", "}", NL, "o", "l", "d">>

InitialFiles == {<<>>, StaleFile}

\* the records of 2-3 causes and 2-3 recommendations whose texts are single
\* lines
SingleLine(text) == \A k \in 1..Len(text) : text[k] # NL

ValidRecord(s) ==
    /\ Renders(s)
    /\ Len(s.causes) \in 2..3
    /\ Len(s.recommendations) \in 2..3
    /\ SingleLine(s.summary)
    /\ SingleLine(s.confidence)
    /\ \A k \in 1..Len(s.causes) : SingleLine(s.causes[k])
    /\ \A k \in 1..Len(s.recommendations) : SingleLine(s.recommendations[k])

\* ------------------------------------------------------------------------
\* State
\* ------------------------------------------------------------------------
VARIABLES
    scenarios,   \* the corpus (the global list scenarios)
    file,        \* the content of output_file on disk
    fmode,       \* the state of the handle f: "closed", "w" or "r"
    pc,          \* the statement the script is at
    pos,         \* the number of scenarios the generation loop has taken
    entry,       \* the dict entry of the last iteration
    lines,       \* the list f.readlines() returned
    i,           \* the index enumerate(lines) has reached
    out,         \* d['output'] of the last line validated
    flags,       \* <<has_summary, has_causes, has_recs, has_conf>>
    ok,          \* ok of the last line validated
    all_good,    \* the aggregate verdict
    stdout,      \* what the script has printed, one record per print call
    error,       \* the exception that ended the run, or "none"
    errarg,      \* the argument of that exception (the key of a KeyError)
    run,         \* the number of the run of the script (1 = the first)
    opened,      \* how many times this run has opened the file for writing
    previous     \* the file as the previous run left it

vars == <<scenarios, file, fmode, pc, pos, entry, lines, i, out, flags, ok,
          all_good, stdout, error, errarg, run, opened, previous>>

\* the globals a run has not assigned yet
Unassigned ==
    /\ pos = 0
    /\ entry = <<>>
    /\ lines = <<>>
    /\ i = 0
    /\ out = <<>>
    /\ flags = <<FALSE, FALSE, FALSE, FALSE>>
    /\ ok = FALSE
    /\ all_good = FALSE
    /\ stdout = <<>>
    /\ error = "none"
    /\ errarg = ""
    /\ fmode = "closed"
    /\ opened = 0

Init ==
    /\ scenarios \in Corpora
    /\ file \in InitialFiles
    /\ pc = "open_write"
    /\ run = 1
    /\ previous = <<>>
    /\ Unassigned

\* ------------------------------------------------------------------------
\* Generation (lines 559-569)
\* ------------------------------------------------------------------------
\* open(output_file, 'a'): mode 'a' keeps what the file holds
OpenForWrite_append ==
    /\ pc = "open_write"
    /\ fmode' = "w"
    /\ opened' = opened + 1
    /\ pos' = 0
    /\ pc' = "generate"
    /\ UNCHANGED <<scenarios, file, entry, lines, i, out, flags, ok, all_good,
                   stdout, error, errarg, run, previous>>

\* open(output_file, 'w'): mode 'w' truncates the file
OpenForWrite ==
    /\ pc = "open_write"
    /\ file' = <<>>
    /\ fmode' = "w"
    /\ opened' = opened + 1
    /\ pos' = 0
    /\ pc' = "generate"
    /\ UNCHANGED <<scenarios, entry, lines, i, out, flags, ok, all_good,
                   stdout, error, errarg, run, previous>>

\* the iteration of the loop without the + '\n' of line 567
WriteEntry_no_newline ==
    /\ pc = "generate"
    /\ pos < Len(scenarios)
    /\ Renders(scenarios[pos + 1])
    /\ entry' = MakeEntry(scenarios[pos + 1])
    /\ file' = file \o Dumps(entry')
    /\ pos' = pos + 1
    /\ UNCHANGED <<scenarios, fmode, pc, lines, i, out, flags, ok, all_good,
                   stdout, error, errarg, run, opened, previous>>

\* an iteration that keeps the output of the previous entry in front of the
\* output of the new one
WriteEntry_accumulates ==
    /\ pc = "generate"
    /\ pos < Len(scenarios)
    /\ Renders(scenarios[pos + 1])
    /\ LET e == MakeEntry(scenarios[pos + 1])
       IN  entry' = IF entry = <<>> THEN e
                    ELSE <<e[1], e[2], <<KeyOutput, entry[3][2] \o e[3][2]>>>>
    /\ file' = file \o Dumps(entry') \o <<NL>>
    /\ pos' = pos + 1
    /\ UNCHANGED <<scenarios, fmode, pc, lines, i, out, flags, ok, all_good,
                   stdout, error, errarg, run, opened, previous>>

\* one iteration of the for loop: build the entry and write its line
WriteEntry ==
    /\ pc = "generate"
    /\ pos < Len(scenarios)
    /\ Renders(scenarios[pos + 1])
    /\ entry' = MakeEntry(scenarios[pos + 1])
    /\ file' = file \o Dumps(entry') \o <<NL>>
    /\ pos' = pos + 1
    /\ UNCHANGED <<scenarios, fmode, pc, lines, i, out, flags, ok, all_good,
                   stdout, error, errarg, run, opened, previous>>

\* an iteration that writes an entry of empty texts for a record it cannot
\* render, and goes on
RenderFails_writes_default ==
    /\ pc = "generate"
    /\ pos < Len(scenarios)
    /\ ~Renders(scenarios[pos + 1])
    /\ entry' = << <<KeyInstruction, <<>>>>, <<KeyInput, <<>>>>, <<KeyOutput, <<>>>> >>
    /\ file' = file \o Dumps(entry') \o <<NL>>
    /\ pos' = pos + 1
    /\ UNCHANGED <<scenarios, fmode, pc, lines, i, out, flags, ok, all_good,
                   stdout, error, errarg, run, opened, previous>>

\* an iteration that has written the beginning of the line when the
\* exception is raised
RenderFails_partial_line ==
    /\ pc = "generate"
    /\ pos < Len(scenarios)
    /\ ~Renders(scenarios[pos + 1])
    /\ file' = file \o <<"{", QUOTE>> \o KeyInstruction \o <<QUOTE, ":", " ">>
    /\ fmode' = "closed"
    /\ error' = RenderError(scenarios[pos + 1])[1]
    /\ errarg' = RenderError(scenarios[pos + 1])[2]
    /\ pc' = "failed"
    /\ UNCHANGED <<scenarios, pos, entry, lines, i, out, flags, ok,
                   all_good, stdout, run, opened, previous>>

\* an iteration that skips a record it cannot render and goes on with the
\* next one
RenderFails_continues ==
    /\ pc = "generate"
    /\ pos < Len(scenarios)
    /\ ~Renders(scenarios[pos + 1])
    /\ pos' = pos + 1
    /\ error' = RenderError(scenarios[pos + 1])[1]
    /\ errarg' = RenderError(scenarios[pos + 1])[2]
    /\ UNCHANGED <<scenarios, file, fmode, pc, entry, lines, i, out, flags, ok,
                   all_good, stdout, run, opened, previous>>

\* an iteration whose record lacks a key or has an attribute json.dumps
\* cannot encode: the exception is raised while the entry is built, before
\* f.write is called; it leaves the with block, which closes the file, and
\* ends the script
RenderFails ==
    /\ pc = "generate"
    /\ pos < Len(scenarios)
    /\ ~Renders(scenarios[pos + 1])
    /\ fmode' = "closed"
    /\ error' = RenderError(scenarios[pos + 1])[1]
    /\ errarg' = RenderError(scenarios[pos + 1])[2]
    /\ pc' = "failed"
    /\ UNCHANGED <<scenarios, file, pos, entry, lines, i, out, flags, ok,
                   all_good, stdout, run, opened, previous>>

\* the end of the loop without the close of the with block
CloseAfterWrite_leaves_open ==
    /\ pc = "generate"
    /\ pos = Len(scenarios)
    /\ pc' = "report_generated"
    /\ UNCHANGED <<scenarios, file, fmode, pos, entry, lines, i, out, flags, ok,
                   all_good, stdout, error, errarg, run, opened, previous>>

\* the loop is exhausted: the with block closes the file
CloseAfterWrite ==
    /\ pc = "generate"
    /\ pos = Len(scenarios)
    /\ fmode' = "closed"
    /\ pc' = "report_generated"
    /\ UNCHANGED <<scenarios, file, pos, entry, lines, i, out, flags, ok,
                   all_good, stdout, error, errarg, run, opened, previous>>

\* print(f"Generated {len(scenarios)} training samples to {output_file}")
ReportGenerated ==
    /\ pc = "report_generated"
    /\ stdout' = Append(stdout, [kind |-> "generated", n |-> Len(scenarios)])
    /\ pc' = "open_read"
    /\ UNCHANGED <<scenarios, file, fmode, pos, entry, lines, i, out, flags,
                   ok, all_good, error, errarg, run, opened, previous>>

\* ------------------------------------------------------------------------
\* Validation (lines 571-589)
\* ------------------------------------------------------------------------
\* with open(output_file, 'r', encoding='utf-8') as f:
OpenForRead ==
    /\ pc = "open_read"
    /\ fmode' = "r"
    /\ pc' = "read_lines"
    /\ UNCHANGED <<scenarios, file, pos, entry, lines, i, out, flags,
                   ok, all_good, stdout, error, errarg, run, opened, previous>>

\* lines = f.readlines(), and the with block closes the file
ReadLines ==
    /\ pc = "read_lines"
    /\ lines' = readlines(file)
    /\ fmode' = "closed"
    /\ pc' = "begin_validation"
    /\ UNCHANGED <<scenarios, file, pos, entry, i, out, flags, ok,
                   all_good, stdout, error, errarg, run, opened, previous>>

\* print("\nValidation:"); all_good = True
BeginValidation ==
    /\ pc = "begin_validation"
    /\ stdout' = Append(stdout, [kind |-> "header"])
    /\ all_good' = TRUE
    /\ i' = 0
    /\ pc' = "validate"
    /\ UNCHANGED <<scenarios, file, fmode, pos, entry, lines, out, flags, ok,
                   error, errarg, run, opened, previous>>

\* marker checks that want the output to begin with 'SUMMARY:'
MarkerFlags_anchored(o) ==
    <<Len(o) >= Len(MarkSummary) /\ SubSeq(o, 1, Len(MarkSummary)) = MarkSummary,
      Contains(MarkCauses, o),
      Contains(MarkRecommendations, o),
      Contains(MarkConfidence, o)>>

\* has_summary, has_causes, has_recs, has_conf of an output (lines 580-583)
MarkerFlags(o) ==
    <<Contains(MarkSummary, o),
      Contains(MarkCauses, o),
      Contains(MarkRecommendations, o),
      Contains(MarkConfidence, o)>>

\* ok = has_summary and has_causes and has_recs and has_conf
LineOk(fl) == fl[1] /\ fl[2] /\ fl[3] /\ fl[4]

\* all_good = ok: the verdict of the last line replaces the aggregate
UpdateAllGood_last_wins(good, line_ok) == line_ok

\* if not ok: all_good = False
UpdateAllGood(good, line_ok) == IF ~line_ok THEN FALSE ELSE good

\* a loop body that raises on a failed line
AfterLine_raises(line_ok) == IF line_ok THEN "validate" ELSE "failed"

\* where the script is after the body of the loop has run for a line: the
\* body neither raises nor breaks on a failed line, the loop goes on
AfterLine(line_ok) == "validate"

\* an iteration that looks for the markers in the instruction and the
\* output of the line together
ValidateLine_checks_instruction ==
    /\ pc = "validate"
    /\ i < Len(lines)
    /\ LET d == loads(lines[i + 1])
       IN  IF ~d.ok \/ ~HasKey(d.dict, KeyOutput)
           THEN /\ error' = (IF d.ok THEN "KeyError" ELSE "JSONDecodeError")
                /\ errarg' = (IF d.ok THEN "output" ELSE "")
                /\ pc' = "failed"
                /\ UNCHANGED <<i, out, flags, ok, all_good, stdout>>
           ELSE /\ out' = Lookup(d.dict, KeyInstruction) \o <<NL>>
                              \o Lookup(d.dict, KeyOutput)
                /\ flags' = MarkerFlags(out')
                /\ ok' = LineOk(flags')
                /\ all_good' = UpdateAllGood(all_good, ok')
                /\ stdout' = Append(stdout,
                                    [kind |-> "line", index |-> i, ok |-> ok',
                                     len |-> Len(out'), flags |-> flags'])
                /\ i' = i + 1
                /\ pc' = AfterLine(ok')
                /\ UNCHANGED <<error, errarg>>
    /\ UNCHANGED <<scenarios, file, fmode, pos, entry, lines, run,
                   opened, previous>>

\* one iteration of the validation loop (lines 578-587); i counts the lines
\* taken so far, so the script's index of the line is the value of i before
\* the step
ValidateLine ==
    /\ pc = "validate"
    /\ i < Len(lines)
    /\ LET d == loads(lines[i + 1])
       IN  IF ~d.ok \/ ~HasKey(d.dict, KeyOutput)
           THEN \* json.loads or d['output'] raises: the script ends
                /\ error' = (IF d.ok THEN "KeyError" ELSE "JSONDecodeError")
                /\ errarg' = (IF d.ok THEN "output" ELSE "")
                /\ pc' = "failed"
                /\ UNCHANGED <<i, out, flags, ok, all_good, stdout>>
           ELSE /\ out' = Lookup(d.dict, KeyOutput)
                /\ flags' = MarkerFlags(out')
                /\ ok' = LineOk(flags')
                /\ all_good' = UpdateAllGood(all_good, ok')
                /\ stdout' = Append(stdout,
                                    [kind |-> "line", index |-> i, ok |-> ok',
                                     len |-> Len(out'), flags |-> flags'])
                /\ i' = i + 1
                /\ pc' = AfterLine(ok')
                /\ UNCHANGED <<error, errarg>>
    /\ UNCHANGED <<scenarios, file, fmode, pos, entry, lines, run,
                   opened, previous>>

\* the loop is exhausted: print the aggregate verdict (line 589)
ReportVerdict ==
    /\ pc = "validate"
    /\ i = Len(lines)
    /\ stdout' = Append(stdout, [kind |-> "verdict", ok |-> all_good])
    /\ pc' = "done"
    /\ UNCHANGED <<scenarios, file, fmode, pos, entry, lines, i, out,
                   flags, ok, all_good, error, errarg, run, opened, previous>>

\* ------------------------------------------------------------------------
\* Running the script again on the same corpus and the same file
\* ------------------------------------------------------------------------
RunAgain ==
    /\ pc \in {"done", "failed"}
    /\ run < MaxRuns
    /\ run' = run + 1
    /\ previous' = file
    /\ pc' = "open_write"
    /\ pos' = 0
    /\ entry' = <<>>
    /\ lines' = <<>>
    /\ i' = 0
    /\ out' = <<>>
    /\ flags' = <<FALSE, FALSE, FALSE, FALSE>>
    /\ ok' = FALSE
    /\ all_good' = FALSE
    /\ stdout' = <<>>
    /\ error' = "none"
    /\ errarg' = ""
    /\ fmode' = "closed"
    /\ opened' = 0
    /\ UNCHANGED <<scenarios, file>>

Next ==
    \/ OpenForWrite
    \/ WriteEntry
    \/ RenderFails
    \/ CloseAfterWrite
    \/ ReportGenerated
    \/ OpenForRead
    \/ ReadLines
    \/ BeginValidation
    \/ ValidateLine
    \/ ReportVerdict
    \/ RunAgain

Spec == Init /\ [][Next]_vars

\* ------------------------------------------------------------------------
\* The script on corpora with a record that cannot be rendered
\* ------------------------------------------------------------------------
\* most records before the record that may fail
MaxPrefix == 1

\* RecordA without one of its keys
Without(f) == [g \in RequiredFields \ {f} |-> RecordA[g]]

\* a record with an attribute whose value is a set
RecordSet ==
    [RecordA EXCEPT !.attributes =
        << <<<<"d", "b">>, [t |-> "str", v |-> <<"p", "g">>]>>,
           <<<<"t", "a", "g", "s">>, [t |-> "set", v |-> <<>>]>> >>]

\* a record that lacks two keys, 'summary' and 'causes'
RecordTwoMissing ==
    [g \in RequiredFields \ {"summary", "causes"} |-> RecordA[g]]

\* records with a set among the attributes that also lack a key, one read
\* before the attributes and one read after them
RecordSetNoService ==
    [g \in RequiredFields \ {"service"} |-> RecordSet[g]]

RecordSetNoConfidence ==
    [g \in RequiredFields \ {"confidence"} |-> RecordSet[g]]

FailingRecords ==
    {Without(f) : f \in RequiredFields}
    \cup {RecordSet, RecordTwoMissing, RecordSetNoService, RecordSetNoConfidence}

\* corpora of some records that render followed by one more record, which
\* may be one that fails
CorporaF ==
    {[k \in 1..(n + 1) |-> IF k <= n THEN RecordA ELSE r] :
        n \in 0..MaxPrefix, r \in FailingRecords \cup {RecordB}}

InitF ==
    /\ scenarios \in CorporaF
    /\ file \in InitialFiles
    /\ pc = "open_write"
    /\ run = 1
    /\ previous = <<>>
    /\ Unassigned

SpecF == InitF /\ [][Next]_vars

\* ------------------------------------------------------------------------
\* The validator on any written dataset
\* ------------------------------------------------------------------------
\* The renderers put the four markers in every output, so the files the
\* generation loop writes never have a failing line.  The validation pass is
\* also explored on its own, from the file the writer produces for examples
\* whose output is any text.

\* longest dataset given to the validation pass
MaxLines == 2

\* all four markers, in reverse order, on one line and without bullets
OutputShuffled ==
    Concat(<<MarkConfidence, MarkRecommendations, MarkCauses, MarkSummary>>)

\* the first three blocks only
OutputNoConfidence ==
    Concat(<<OutSummary, <<"x">>, OutCauses, Bullet, <<"y">>, OutRecommendations,
             Bullet, <<"z">>>>)

\* the words of the markers without their colons
OutputNoColon ==
    <<"S", "U", "M", "M", "A", "R", "Y", " ", "C", "A", "U", "S", "E", "S", NL,
      "R", "E", "C", "O", "M", "M", "E", "N", "D", "A", "T", "I", "O", "N", "S",
      ";", "C", "O", "N", "F", "I", "D", "E", "N", "C", "E", " ", ":">>

Example(instruction, output) ==
    << <<KeyInstruction, instruction>>, <<KeyInput, <<>>>>, <<KeyOutput, output>> >>

Examples ==
    {MakeEntry(RecordB),
     Example(<<"q">>, OutputShuffled),
     Example(build_instruction(RecordB), OutputNoConfidence),
     Example(<<"q">>, OutputNoColon),
     Example(<<"q">>, OutputNoConfidence),
     Example(<<"q">>, <<>>)}

Datasets == ListsUpTo(Examples, MaxLines)

\* the file the generation loop writes for a list of entries
WrittenFile(ds) == Concat([k \in 1..Len(ds) |-> Dumps(ds[k]) \o <<NL>>])

\* the script is about to read back a file that holds the lines of a dataset
InitV ==
    /\ file \in {WrittenFile(ds) : ds \in Datasets}
    /\ scenarios = <<>>
    /\ pc = "open_read"
    /\ run = 1
    /\ previous = <<>>
    /\ Unassigned

NextV ==
    \/ OpenForRead
    \/ ReadLines
    \/ BeginValidation
    \/ ValidateLine
    \/ ReportVerdict

SpecV == InitV /\ [][NextV]_vars

\* ------------------------------------------------------------------------
\* Properties
\* ------------------------------------------------------------------------
\* text.split('\n'): the pieces of a text between its line breaks
SplitLines(text) ==
    LET ends == Ascending({p \in 1..Len(text) : text[p] = NL})
        n    == Len(ends)
    IN  [k \in 1..(n + 1) |->
            SubSeq(text, IF k = 1 THEN 1 ELSE ends[k - 1] + 1,
                         IF k = n + 1 THEN Len(text) ELSE ends[k] - 1)]

StartsWith(prefix, text) ==
    /\ Len(text) >= Len(prefix)
    /\ SubSeq(text, 1, Len(prefix)) = prefix

\* the text of a line after a prefix
After(prefix, text) == SubSeq(text, Len(prefix) + 1, Len(text))

IsBulletLine(l) == StartsWith(<<"-", " ">>, l)

\* the first position from which on the lines ls has a line that satisfies P,
\* or 0
FirstFrom(ls, from, P(_)) ==
    IF \E k \in from..Len(ls) : P(ls[k])
    THEN CHOOSE k \in from..Len(ls) :
            P(ls[k]) /\ \A j \in from..(k - 1) : ~P(ls[j])
    ELSE 0

\* the output field of an entry
OutputOf(e) == e[3][2]

\* the generation loop has finished without an error
Generated ==
    pc \in {"report_generated", "open_read", "read_lines", "begin_validation",
            "validate", "done"}

\* the record the last entry was built from
LastRecord == scenarios[pos]

\* the last iteration built the entry of a valid record
BuiltValid == pos > 0 /\ ValidRecord(LastRecord)

\* C1: after a generation run in which every record rendered, the file has
\* one line per record of the corpus, and its Nth line is the JSON text of
\* the example of the Nth record: instruction, empty input and output
\* rendered from that record
OrderPreserved ==
    Generated =>
        LET ls == readlines(file)
        IN  /\ Len(ls) = Len(scenarios)
            /\ \A n \in 1..Len(scenarios) :
                   /\ ls[n][Len(ls[n])] = NL
                   /\ loads(ls[n]).ok
                   /\ loads(ls[n]).dict =
                         Example(build_instruction(scenarios[n]),
                                 build_output(scenarios[n]))

\* a run has written a corpus of two different records
OrderPreservedWitness ==
    /\ pc = "report_generated"
    /\ Len(scenarios) >= 2
    /\ scenarios[1] # scenarios[2]
    /\ Len(readlines(file)) = Len(scenarios)

\* the lines of the canonical response of a record
CanonicalLines(s) ==
    << MarkSummary \o <<" ">> \o s.summary, MarkCauses >>
    \o [k \in 1..Len(s.causes) |-> <<"-", " ">> \o s.causes[k]]
    \o << MarkRecommendations >>
    \o [k \in 1..Len(s.recommendations) |-> <<"-", " ">> \o s.recommendations[k]]
    \o << MarkConfidence \o <<" ">> \o s.confidence >>

\* C2: the output built for a valid record is exactly the SUMMARY line, the
\* CAUSES: line, the cause bullets, the RECOMMENDATIONS: line, the
\* recommendation bullets and the CONFIDENCE line, in that order, with no
\* blank line and no line break after the last line
CanonicalShape ==
    BuiltValid =>
        LET o == OutputOf(entry)
            ls == SplitLines(o)
        IN  /\ ls = CanonicalLines(LastRecord)
            /\ \A k \in 1..Len(ls) : ls[k] # <<>>
            /\ o[Len(o)] # NL

\* the loop has built the output of a valid record with 3 causes
CanonicalShapeWitness ==
    /\ pc = "generate"
    /\ BuiltValid
    /\ Len(LastRecord.causes) = 3
    /\ Len(SplitLines(OutputOf(entry))) = 9

\* the lines of ls strictly between positions a and b that are bullets,
\* without their "- " prefix
BulletsBetween(ls, a, b) ==
    LET sel == SelectSeq(SubSeq(ls, a + 1, b - 1), IsBulletLine)
    IN  [k \in 1..Len(sel) |-> After(<<"-", " ">>, sel[k])]

IsCausesLine(l) == l = MarkCauses
IsRecommendationsLine(l) == l = MarkRecommendations
IsConfidenceLine(l) == StartsWith(MarkConfidence, l)

\* C3: in the output built for a valid record, the bullet lines between the
\* CAUSES: line and the RECOMMENDATIONS: line are as many as the causes of
\* the record and carry the causes, verbatim and in order
CausesRendered ==
    BuiltValid =>
        LET ls == SplitLines(OutputOf(entry))
            a  == FirstFrom(ls, 1, IsCausesLine)
            b  == FirstFrom(ls, a + 1, IsRecommendationsLine)
        IN  /\ a > 0
            /\ b > a
            /\ BulletsBetween(ls, a, b) = LastRecord.causes

\* the loop has built the output of a valid record of 2 causes, one of which
\* reads as a marker
CausesRenderedWitness ==
    /\ BuiltValid
    /\ Len(LastRecord.causes) = 2
    /\ LastRecord.causes[2] = MarkRecommendations
    /\ Contains(MarkCauses, OutputOf(entry))

\* C4: in the output built for a valid record, the bullet lines between the
\* RECOMMENDATIONS: line and the CONFIDENCE: line are as many as the
\* recommendations of the record and carry them, verbatim and in order
RecommendationsRendered ==
    BuiltValid =>
        LET ls == SplitLines(OutputOf(entry))
            a  == FirstFrom(ls, 1, IsCausesLine)
            b  == FirstFrom(ls, a + 1, IsRecommendationsLine)
            c  == FirstFrom(ls, b + 1, IsConfidenceLine)
        IN  /\ a > 0
            /\ b > a
            /\ c > b
            /\ BulletsBetween(ls, b, c) = LastRecord.recommendations

\* the loop has built the output of a valid record of 3 recommendations and
\* fewer causes
RecommendationsRenderedWitness ==
    /\ BuiltValid
    /\ Len(LastRecord.recommendations) = 3
    /\ Len(LastRecord.causes) = 2
    /\ Contains(MarkRecommendations, OutputOf(entry))

\* the reports of the validation loop that this run has printed
LineReports == SelectSeq(stdout, LAMBDA r : r.kind = "line")

\* C5: the line of a valid record passes all four marker checks, and when
\* every record of the corpus is valid the run ends with one passing verdict
\* per record and the aggregate verdict passing
ValidRecordsPass ==
    /\ \A k \in 1..Len(LineReports) :
          LET r == LineReports[k]
          IN  ValidRecord(scenarios[r.index + 1]) =>
                 r.flags = <<TRUE, TRUE, TRUE, TRUE>> /\ r.ok
    /\ (pc = "done" /\ \A n \in 1..Len(scenarios) : ValidRecord(scenarios[n])) =>
          /\ Len(LineReports) = Len(scenarios)
          /\ \A k \in 1..Len(LineReports) : LineReports[k].ok
          /\ stdout[Len(stdout)] = [kind |-> "verdict", ok |-> TRUE]

\* a run over two valid records has ended with the aggregate verdict passing
ValidRecordsPassWitness ==
    /\ pc = "done"
    /\ Len(scenarios) = 2
    /\ \A n \in 1..Len(scenarios) : ValidRecord(scenarios[n])
    /\ Len(LineReports) = 2
    /\ all_good

\* the output field of line k of the file
OutputOfLine(k) == Lookup(loads(readlines(file)[k]).dict, KeyOutput)

Markers == {MarkSummary, MarkCauses, MarkRecommendations, MarkConfidence}

\* the markers that occur in an output
MarkersIn(o) == {m \in Markers : Contains(m, o)}

\* C6: while the lines are validated the aggregate verdict is pass exactly
\* when every line taken so far has the four markers in its output field, so
\* a failed line keeps it at fail whatever the later lines are; the verdict
\* printed at the end is that of all the lines of the file
AggregateVerdict ==
    /\ pc \in {"validate", "done"} =>
          (all_good <=> \A k \in 1..i : MarkersIn(OutputOfLine(k)) = Markers)
    /\ pc = "done" =>
          /\ i = Len(readlines(file))
          /\ stdout[Len(stdout)] = [kind |-> "verdict", ok |-> all_good]

\* the pass has ended on a file whose first line fails and whose second
\* line passes
AggregateVerdictWitness ==
    /\ pc = "done"
    /\ Len(lines) = 2
    /\ MarkersIn(OutputOfLine(1)) # Markers
    /\ MarkersIn(OutputOfLine(2)) = Markers
    /\ ~all_good

\* C7: a failed line does not end the pass: the script prints, after the
\* header, one result per line taken, in the order of the file, and the
\* aggregate verdict is printed once, after the result of the last line
CollectedNotThrown ==
    /\ pc # "failed"
    /\ error = "none"
    /\ pc \in {"validate", "done"} =>
          /\ Len(stdout) = 1 + i + (IF pc = "done" THEN 1 ELSE 0)
          /\ stdout[1].kind = "header"
          /\ \A k \in 1..i :
                /\ stdout[1 + k].kind = "line"
                /\ stdout[1 + k].index = k - 1
                /\ stdout[1 + k].ok = (MarkersIn(OutputOfLine(k)) = Markers)
    /\ pc = "done" =>
          /\ i = Len(readlines(file))
          /\ stdout[Len(stdout)].kind = "verdict"
    /\ pc # "done" => \A k \in 1..Len(stdout) : stdout[k].kind # "verdict"

\* the pass has ended after a failed first line, with a result for each of
\* the two lines
CollectedNotThrownWitness ==
    /\ pc = "done"
    /\ Len(readlines(file)) = 2
    /\ Len(stdout) = 4
    /\ ~stdout[2].ok
    /\ stdout[3].kind = "line"

\* C8: lines whose outputs hold the same markers get the same verdict,
\* and an output that holds the four markers passes whatever their order and
\* whether or not it has bullets
VerdictByMarkersOnly ==
    pc \in {"validate", "done"} =>
        /\ \A j, k \in 1..i :
              MarkersIn(OutputOfLine(j)) = MarkersIn(OutputOfLine(k)) =>
                 stdout[1 + j].ok = stdout[1 + k].ok
        /\ \A k \in 1..i :
              MarkersIn(OutputOfLine(k)) = Markers => stdout[1 + k].ok

\* a rendered output and an output with the markers in reverse order and no
\* bullet have both passed
VerdictByMarkersOnlyWitness ==
    /\ pc = "done"
    /\ i = 2
    /\ OutputOfLine(1) = OutputShuffled
    /\ ~Contains(<<"-", " ">>, OutputOfLine(1))
    /\ OutputOfLine(2) # OutputShuffled
    /\ stdout[2].ok
    /\ stdout[3].ok

\* the statements of the validation part of the script
Validating == {"open_read", "read_lines", "begin_validation", "validate", "done"}

\* C9: the file is opened for writing once in a run; when the script comes
\* to read it back every record has its line in the file and the file is
\* closed, and from then on the run writes nothing to the file
WriteThenValidate ==
    /\ [](/\ opened <= 1
          /\ pc \in Validating =>
                /\ opened = 1
                /\ pos = Len(scenarios)
                /\ Len(readlines(file)) = Len(scenarios)
                /\ fmode = (IF pc = "read_lines" THEN "r" ELSE "closed"))
    /\ [][(pc \in Validating /\ run' = run) => file' = file]_vars

\* the validation loop is at work on a file of two lines
WriteThenValidateWitness ==
    /\ pc = "validate"
    /\ i = 1
    /\ Len(lines) = 2
    /\ opened = 1
    /\ fmode = "closed"

\* C10: when the script has run to its end a second time on the same corpus,
\* the file is, character for character, the file the first run left
Idempotent ==
    (run >= 2 /\ pc = "done") => file = previous

\* a second run over a corpus of two records has ended
IdempotentWitness ==
    /\ run = 2
    /\ pc = "done"
    /\ Len(scenarios) = 2
    /\ file = previous
    /\ file # <<>>

\* C11: the line written for an entry, read back from the file and decoded,
\* is a dict equal to the entry: the same instruction, the empty input and
\* the same output
RoundTrip ==
    (pc = "generate" /\ pos > 0) =>
        LET ls == readlines(file)
            d  == loads(ls[pos])
        IN  /\ Len(ls) = pos
            /\ d.ok
            /\ d.dict = entry
            /\ Lookup(d.dict, KeyInstruction) = entry[1][2]
            /\ Lookup(d.dict, KeyInput) = <<>>
            /\ Lookup(d.dict, KeyOutput) = entry[3][2]

\* the loop has written an entry whose texts hold a quote, a backslash, a
\* line break and a non-ASCII character
RoundTripWitness ==
    /\ pc = "generate"
    /\ pos > 0
    /\ \E k \in 1..Len(entry[3][2]) : entry[3][2][k] = QUOTE
    /\ \E k \in 1..Len(entry[3][2]) : entry[3][2][k] = BACKSLASH
    /\ \E k \in 1..Len(entry[1][2]) : entry[1][2][k] = NL
    /\ \E k \in 1..Len(entry[1][2]) : entry[1][2][k] \in NonAscii
    /\ loads(readlines(file)[pos]).dict = entry

\* C12: the line written for a record is one object of exactly three
\* members, instruction, input and output in that order; its input is the
\* empty string, its instruction the instruction rendered from the record and
\* its output the output rendered from the same record
EntrySchema ==
    (pc = "generate" /\ pos > 0) =>
        LET line == readlines(file)[pos]
            d    == loads(line).dict
        IN  /\ loads(line).ok
            /\ Len(d) = 3
            /\ <<d[1][1], d[2][1], d[3][1]>> = <<KeyInstruction, KeyInput, KeyOutput>>
            /\ d[1][2] = build_instruction(LastRecord)
            /\ d[2][2] = <<>>
            /\ d[3][2] = build_output(LastRecord)
            /\ StartsWith(<<"{", QUOTE>> \o KeyInstruction \o <<QUOTE, ":", " ", QUOTE>>,
                          line)

\* the loop has written the line of a second record, which differs from the
\* first
EntrySchemaWitness ==
    /\ pc = "generate"
    /\ pos = 2
    /\ scenarios[1] # scenarios[2]
    /\ Len(loads(readlines(file)[pos]).dict) = 3
    /\ LastRecord.service # <<>>

\* the record at index n of the corpus lacks a key the renderers read
LacksField(n) == ~(RequiredFields \subseteq DOMAIN scenarios[n])

\* C13: a record that lacks a key the renderers read is never rendered with
\* a default: the loop does not get past it, the file gets no line for it,
\* the statements after the loop are not reached, and the run that comes to
\* it ends in an exception, a KeyError of a key the record lacks unless the
\* attributes, read before that key, could not be encoded
MissingFieldAborts ==
    \A n \in 1..Len(scenarios) :
        LacksField(n) =>
            /\ pos < n
            /\ pc # "open_write" => Len(readlines(file)) < n
            /\ pc \in {"open_write", "generate", "failed"}
            /\ (pc = "failed" /\ pos = n - 1) =>
                  /\ error \in {"KeyError", "TypeError"}
                  /\ error = "KeyError" =>
                        /\ errarg \in RequiredFields
                        /\ errarg \notin DOMAIN scenarios[n]
                  /\ error = "TypeError" =>
                        ~Serializable(scenarios[n].attributes)

\* the run has ended in KeyError('duration') at the second record, with the
\* line of the first record in the file
MissingFieldAbortsWitness ==
    /\ pc = "failed"
    /\ pos = 1
    /\ LacksField(2)
    /\ error = "KeyError"
    /\ errarg = "duration"
    /\ Len(readlines(file)) = 1

\* the index (from 1) of the first record of a corpus that cannot be
\* rendered, or 0
FirstFailing(c) ==
    IF \E n \in 1..Len(c) : ~Renders(c[n])
    THEN CHOOSE n \in 1..Len(c) :
            ~Renders(c[n]) /\ \A m \in 1..(n - 1) : Renders(c[m])
    ELSE 0

\* what a run that fails in the generation loop shows of the failure: the
\* type and the argument of the exception of the traceback (nothing has been
\* printed before)
FailureReport(c) == RenderError(c[FirstFailing(c)])

\* C14: when generation fails on a record the run halts and what it reports
\* identifies the offending record: no corpus fails with the same report at
\* another index
OffendingRecordIdentified ==
    (pc = "failed" /\ error \in {"KeyError", "TypeError"} /\ run = 1) =>
        /\ stdout = <<>>
        /\ \A c \in CorporaF :
              (FirstFailing(c) > 0 /\ FailureReport(c) = <<error, errarg>>) =>
                 FirstFailing(c) = pos + 1

\* the record at index n of the corpus has an attribute json.dumps cannot
\* encode
Unserializable(n) ==
    /\ "attributes" \in DOMAIN scenarios[n]
    /\ ~Serializable(scenarios[n].attributes)

\* C15: from the moment the run has opened the file, every line of the file
\* is a complete JSON object that ends with a newline; a record whose
\* attributes cannot be encoded puts nothing in the file: the run ends at it
\* in an exception, with the lines of the records before it and no more
NoPartialLine ==
    /\ pc # "open_write" =>
          \A k \in 1..Len(readlines(file)) :
              LET line == readlines(file)[k]
              IN  line[Len(line)] = NL /\ loads(line).ok
    /\ \A n \in 1..Len(scenarios) :
          Unserializable(n) =>
              /\ pos < n
              /\ pc \in {"open_write", "generate", "failed"}
              /\ pc # "open_write" => Len(readlines(file)) = pos
              /\ (pc = "failed" /\ pos = n - 1) =>
                    error \in {"TypeError", "KeyError"}

\* the run has ended in TypeError at a second record whose attributes hold
\* a set, and the file holds the line of the first record
NoPartialLineWitness ==
    /\ pc = "failed"
    /\ error = "TypeError"
    /\ pos = 1
    /\ Unserializable(2)
    /\ Len(readlines(file)) = 1
    /\ loads(readlines(file)[1]).ok

\* the framing text of the template of build_instruction, line by line
\* (source lines 520-545)
\* line 520
TemplateRole ==
    <<"Y", "o", "u", " ", "a", "r", "e", " ", "a", "n", " ", "e", "x", "p", "e", "r",
      "t", " ", "i", "n", " ", "d", "i", "s", "t", "r", "i", "b", "u", "t", "e", "d",
      " ", "s", "y", "s", "t", "e", "m", "s", " ", "a", "n", "d", " ", "o", "b", "s",
      "e", "r", "v", "a", "b", "i", "l", "i", "t", "y", ".", " ", "A", "n", "a", "l",
      "y", "z", "e", " ", "t", "h", "i", "s", " ", "p", "e", "r", "f", "o", "r", "m",
      "a", "n", "c", "e", " ", "a", "n", "o", "m", "a", "l", "y", ":">>

\* line 522
TemplateDetailsHeader ==
    <<"#", "#", " ", "A", "n", "o", "m", "a", "l", "y", " ", "D", "e", "t", "a", "i",
      "l", "s">>

\* line 529
TemplateAttributesHeader ==
    <<"#", "#", " ", "S", "p", "a", "n", " ", "A", "t", "t", "r", "i", "b", "u", "t",
      "e", "s">>

\* lines 532-535
TemplateTask ==
    <<<<"B", "a", "s", "e", "d", " ", "o", "n", " ", "t", "h", "e", " ", "t",
        "r", "a", "c", "e", " ", "d", "a", "t", "a", " ", "A", "N", "D", " ",
        "c", "o", "r", "r", "e", "l", "a", "t", "e", "d", " ", "m", "e", "t",
        "r", "i", "c", "s", ",", " ", "p", "r", "o", "v", "i", "d", "e", ":">>,
      <<"1", ".", " ", "A", " ", "b", "r", "i", "e", "f", " ", "s", "u", "m",
        "m", "a", "r", "y", " ", "(", "1", "-", "2", " ", "s", "e", "n", "t",
        "e", "n", "c", "e", "s", ")", " ", "o", "f", " ", "w", "h", "a", "t",
        " ", "l", "i", "k", "e", "l", "y", " ", "c", "a", "u", "s", "e", "d",
        " ", "t", "h", "i", "s", " ", "a", "n", "o", "m", "a", "l", "y">>,
      <<"2", ".", " ", "2", "-", "3", " ", "p", "o", "s", "s", "i", "b", "l",
        "e", " ", "r", "o", "o", "t", " ", "c", "a", "u", "s", "e", "s", " ",
        "(", "c", "o", "n", "s", "i", "d", "e", "r", " ", "r", "e", "s", "o",
        "u", "r", "c", "e", " ", "u", "t", "i", "l", "i", "z", "a", "t", "i",
        "o", "n", " ", "i", "f", " ", "m", "e", "t", "r", "i", "c", "s", " ",
        "s", "h", "o", "w", " ", "i", "s", "s", "u", "e", "s", ")">>,
      <<"3", ".", " ", "2", "-", "3", " ", "a", "c", "t", "i", "o", "n", "a",
        "b", "l", "e", " ", "r", "e", "c", "o", "m", "m", "e", "n", "d", "a",
        "t", "i", "o", "n", "s">>>>

\* lines 537-545
TemplateFormat ==
    <<<<"F", "o", "r", "m", "a", "t", " ", "y", "o", "u", "r", " ", "r", "e",
        "s", "p", "o", "n", "s", "e", " ", "a", "s", ":">>,
      <<"S", "U", "M", "M", "A", "R", "Y", ":", " ", "[", "y", "o", "u", "r",
        " ", "s", "u", "m", "m", "a", "r", "y", "]">>,
      <<"C", "A", "U", "S", "E", "S", ":">>,
      <<"-", " ", "[", "c", "a", "u", "s", "e", " ", "1", "]">>,
      <<"-", " ", "[", "c", "a", "u", "s", "e", " ", "2", "]">>,
      <<"R", "E", "C", "O", "M", "M", "E", "N", "D", "A", "T", "I", "O", "N",
        "S", ":">>,
      <<"-", " ", "[", "r", "e", "c", "o", "m", "m", "e", "n", "d", "a", "t",
        "i", "o", "n", " ", "1", "]">>,
      <<"-", " ", "[", "r", "e", "c", "o", "m", "m", "e", "n", "d", "a", "t",
        "i", "o", "n", " ", "2", "]">>,
      <<"C", "O", "N", "F", "I", "D", "E", "N", "C", "E", ":", " ", "[", "l",
        "o", "w", "/", "m", "e", "d", "i", "u", "m", "/", "h", "i", "g", "h",
        "]">>>>

\* line 523
LabelService ==
    <<"-", " ", "S", "e", "r", "v", "i", "c", "e", ":", " ">>

\* line 524
LabelOperation ==
    <<"-", " ", "O", "p", "e", "r", "a", "t", "i", "o", "n", ":", " ">>

\* line 525
LabelDuration ==
    <<"-", " ", "D", "u", "r", "a", "t", "i", "o", "n", ":", " ">>

\* line 525
LabelExpected ==
    <<"m", "s", " ", "(", "e", "x", "p", "e", "c", "t", "e", "d", ":", " ">>

\* line 525
LabelPlusMinus ==
    <<"m", "s", " ", "U+00B1", " ">>

\* line 525
LabelMs ==
    <<"m", "s", ")">>

\* line 526
LabelDeviation ==
    <<"-", " ", "D", "e", "v", "i", "a", "t", "i", "o", "n", ":", " ">>

\* line 526
LabelSigma ==
    <<"U+03C3", " ", "(", "s", "t", "a", "n", "d", "a", "r", "d", " ", "d", "e", "v", "i",
      "a", "t", "i", "o", "n", "s", " ", "f", "r", "o", "m", " ", "m", "e", "a", "n",
      ")">>

\* line 527
LabelSeverity ==
    <<"-", " ", "S", "e", "v", "e", "r", "i", "t", "y", ":", " ", "S", "E", "V">>


\* the lines of the instruction of a record: the role sentence, the Anomaly
\* Details section, the Span Attributes section with the attributes block,
\* the task description and the format skeleton
InstructionLines(s) ==
    << TemplateRole,
       <<>>,
       TemplateDetailsHeader,
       LabelService \o s.service,
       LabelOperation \o s.operation,
       Concat(<<LabelDuration, IntStr(s.duration),
                LabelExpected, IntStr(s.expected_mean),
                LabelPlusMinus, IntStr(s.expected_std), LabelMs>>),
       Concat(<<LabelDeviation, IntStr(s.deviation), LabelSigma>>),
       Concat(<<LabelSeverity, IntStr(s.severity), <<" ", "(">>,
                s.severity_name, <<")">>>>),
       <<>>,
       TemplateAttributesHeader >>
    \o SplitLines(DumpsIndent2(s.attributes))
    \o << <<>> >> \o TemplateTask
    \o << <<>> >> \o TemplateFormat

\* the lines of an instruction that carry no data: the first three, the two
\* before the attributes block and the fifteen after it
FramingLines(ls) ==
    SubSeq(ls, 1, 3) \o SubSeq(ls, 9, 10) \o SubSeq(ls, Len(ls) - 14, Len(ls))

\* the labels of the five lines of the Anomaly Details section
DetailLabels == <<LabelService, LabelOperation, LabelDuration, LabelDeviation,
                  LabelSeverity>>

HasDetailLabels(ls) == \A k \in 1..5 : StartsWith(DetailLabels[k], ls[3 + k])

\* C16: the instruction built for a record has the sections of the template
\* in their order, with the data of the record in their places; its format
\* skeleton shows the four markers; and the instruction of the record before
\* it in the corpus has the same framing lines and the same labels
InstructionTemplate ==
    pos > 0 =>
        LET ls == SplitLines(entry[1][2])
            n  == Len(ls)
        IN  /\ ls = InstructionLines(LastRecord)
            /\ StartsWith(MarkSummary, ls[n - 7])
            /\ ls[n - 6] = MarkCauses
            /\ ls[n - 3] = MarkRecommendations
            /\ StartsWith(MarkConfidence, ls[n])
            /\ HasDetailLabels(ls)
            /\ pos > 1 =>
                  LET other == SplitLines(build_instruction(scenarios[pos - 1]))
                  IN  /\ FramingLines(other) = FramingLines(ls)
                      /\ HasDetailLabels(other)

\* the loop has built the instruction of a second record whose data and
\* attributes differ from those of the first
InstructionTemplateWitness ==
    /\ pc = "generate"
    /\ pos = 2
    /\ scenarios[1].service # scenarios[2].service
    /\ Len(scenarios[1].attributes) # Len(scenarios[2].attributes)
    /\ entry[1][2] # build_instruction(scenarios[1])
    /\ FramingLines(SplitLines(entry[1][2])) =
          FramingLines(SplitLines(build_instruction(scenarios[1])))

\* C17: no step changes the corpus; while the loop runs, the line the file
\* holds for each record taken is the line of that record alone, whatever
\* its place in the corpus and whatever the other records are, and a step of
\* the loop leaves the lines written before it as they are
NoCrossRecordEffect ==
    /\ [](pc = "generate" =>
            LET ls == readlines(file)
            IN  /\ Len(ls) = pos
                /\ \A n \in 1..pos : ls[n] = EntryLine(scenarios[n]))
    /\ [][/\ scenarios' = scenarios
          /\ (pc = "generate" /\ pc' = "generate") =>
                SubSeq(file', 1, Len(file)) = file]_vars

\* the loop has written the lines of two different records, and the first
\* line is the one its record gets when it is alone in the corpus
NoCrossRecordEffectWitness ==
    /\ pc = "generate"
    /\ pos = 2
    /\ scenarios[1] # scenarios[2]
    /\ readlines(file)[1] = EntryLine(scenarios[1])
    /\ readlines(file)[2] = EntryLine(scenarios[2])
    /\ readlines(file)[1] # readlines(file)[2]


\* the lines of the first k records of the corpus, one after the other
PrefixLines(k) == Concat([n \in 1..k |-> EntryLine(scenarios[n])])

\* C18: when the corpus has a record that cannot be rendered, the first
\* such record at index k (from 0), a run ends in the exception with the
\* file closed and holding exactly the k lines of the records before it
\* (nothing when k = 0), whatever the file held when the run began; the
\* file is never read back, and no line result and no verdict is printed
FailClosed ==
    LET k == FirstFailing(scenarios)
    IN  k > 0 =>
           /\ pc \in {"open_write", "generate", "failed"}
           /\ stdout = <<>>
           /\ lines = <<>>
           /\ i = 0
           /\ pc = "generate" => pos < k
           /\ pc = "failed" =>
                  /\ pos = k - 1
                  /\ fmode = "closed"
                  /\ file = (IF k = 1 THEN <<>> ELSE PrefixLines(k - 1))
                  /\ Len(readlines(file)) = k - 1

\* a second run, which began with the file holding the line the first run
\* left, has failed at the second record and the file holds the line of
\* the first record again
FailClosedWitness ==
    /\ pc = "failed"
    /\ run = 2
    /\ previous # <<>>
    /\ FirstFailing(scenarios) = 2
    /\ pos = 1
    /\ file = EntryLine(scenarios[1])
    /\ stdout = <<>>

\* a run has failed at the first record: the file, truncated when it was
\* opened, is empty
FailClosedAtFirst ==
    /\ pc = "failed"
    /\ FirstFailing(scenarios) = 1
    /\ file = <<>>


\* the instruction field of line k of the file
InstructionOfLine(k) == Lookup(loads(readlines(file)[k]).dict, KeyInstruction)

\* C19: the verdict of a line does not depend on its instruction field.
\* The instruction rendered for any record holds the four markers in its
\* format skeleton; all the same, lines with equal outputs get equal
\* verdicts whatever their instructions, and a line whose output lacks a
\* marker fails although its instruction holds that marker
VerdictIgnoresInstruction ==
    /\ pc = "open_read" =>
          \A r \in Records :
              Renders(r) => MarkersIn(build_instruction(r)) = Markers
    /\ pc \in {"validate", "done"} =>
          /\ \A j, k \in 1..i :
                OutputOfLine(j) = OutputOfLine(k) =>
                   stdout[1 + j].ok = stdout[1 + k].ok
          /\ \A k \in 1..i : \A m \in Markers :
                (Contains(m, InstructionOfLine(k)) /\ ~Contains(m, OutputOfLine(k))) =>
                   ~stdout[1 + k].ok

\* two lines with the same output, which lacks the confidence marker, and
\* different instructions, the first a rendered instruction that holds the
\* four markers: both have failed
VerdictIgnoresInstructionWitness ==
    /\ pc = "done"
    /\ i = 2
    /\ OutputOfLine(1) = OutputOfLine(2)
    /\ InstructionOfLine(1) # InstructionOfLine(2)
    /\ MarkersIn(InstructionOfLine(1)) = Markers
    /\ MarkersIn(InstructionOfLine(2)) = {}
    /\ ~Contains(MarkConfidence, OutputOfLine(1))
    /\ ~stdout[2].ok
    /\ ~stdout[3].ok

====
